---- MODULE Spec2Model ----
(***************************************************************************)
(* A model of pgdummy.c: the pgaudit.log setting of the audit extension.   *)
(* check_pgaudit_log turns a comma-separated list of class names into a    *)
(* bitmap held in a malloc'ed int, assign_pgaudit_log stores that bitmap   *)
(* in the static auditLogBitmap.                                           *)
(*                                                                         *)
(* A C string is a sequence of one-character strings; the terminating NUL  *)
(* is what At returns past the end. A C int is the set of the positions of *)
(* its one bits (bit 0 the least significant), so that |, & and ~ are      *)
(* union, intersection and complement within the int's IntWidth bits.      *)
(***************************************************************************)
EXTENDS Integers, Sequences, FiniteSets, TLC

(* ------------------------------------------------------------ C strings *)

NUL == ""

At(s, i) == IF i >= 1 /\ i <= Len(s) THEN s[i] ELSE NUL

UpperChars == <<"A","B","C","D","E","F","G","H","I","J","K","L","M",
                "N","O","P","Q","R","S","T","U","V","W","X","Y","Z">>

LowerChars == <<"a","b","c","d","e","f","g","h","i","j","k","l","m",
                "n","o","p","q","r","s","t","u","v","w","x","y","z">>

\* The ASCII fold both pg_strcasecmp and downcase_truncate_identifier apply
\* to a byte: 'A'..'Z' move to 'a'..'z', every other byte stays.
ToLower(c) ==
    IF \E i \in 1..26 : UpperChars[i] = c
    THEN LowerChars[CHOOSE i \in 1..26 : UpperChars[i] = c]
    ELSE c

ToUpper(c) ==
    IF \E i \in 1..26 : LowerChars[i] = c
    THEN UpperChars[CHOOSE i \in 1..26 : LowerChars[i] = c]
    ELSE c

\* pg_strcasecmp(s1, s2): 0 when the strings are equal after the ASCII fold,
\* nonzero (here 1, the sign is not used by the caller) otherwise.
pg_strcasecmp(s1, s2) ==
    IF Len(s1) = Len(s2) /\ \A i \in 1..Len(s1) : ToLower(s1[i]) = ToLower(s2[i])
    THEN 0
    ELSE 1

\* scanner_isspace: space, \t, \n, \r, \f.
scanner_isspace(c) == c \in {" ", "\t", "\n", "\r", "\f"}

(* ------------------------------------------------- class names and bits *)

CLASS_DDL      == <<"D","D","L">>
CLASS_FUNCTION == <<"F","U","N","C","T","I","O","N">>
CLASS_MISC     == <<"M","I","S","C">>
CLASS_MISC_SET == <<"M","I","S","C","_","S","E","T">>
CLASS_READ     == <<"R","E","A","D">>
CLASS_ROLE     == <<"R","O","L","E">>
CLASS_WRITE    == <<"W","R","I","T","E">>
CLASS_NONE     == <<"N","O","N","E">>
CLASS_ALL      == <<"A","L","L">>

\* The width of the int that holds the bitmap: LOG_ALL, 0xFFFFFFFF, fills it.
IntWidth == 32

IntBits == 0..(IntWidth - 1)

\* 1 << n
Shl1(n) == {n}

LOG_DDL      == Shl1(0)
LOG_FUNCTION == Shl1(1)
LOG_MISC     == Shl1(2)
LOG_READ     == Shl1(3)
LOG_ROLE     == Shl1(4)
LOG_WRITE    == Shl1(5)
LOG_MISC_SET == Shl1(6)
LOG_NONE     == {}
LOG_ALL      == IntBits

BitOr(a, b)  == a \cup b
BitAnd(a, b) == a \cap b
BitNot(a)    == IntBits \ a

(* ------------------------------------------------ SplitIdentifierString *)

\* strchr(s + from - 1, c) as a position of s, 0 for NULL.
StrChr(s, from, c) ==
    IF \E j \in from..Len(s) : s[j] = c
    THEN CHOOSE j \in from..Len(s) : s[j] = c /\ \A k \in from..(j - 1) : s[k] # c
    ELSE 0

\* memmove(endp, endp + 1, strlen(endp)): the byte at endp is dropped.
RemoveAt(s, endp) == SubSeq(s, 1, endp - 1) \o SubSeq(s, endp + 1, Len(s))

\* downcase_truncate_identifier on s[from .. to-1], copied back in place. The
\* cut at NAMEDATALEN-1 bytes is left out: no name of a class is that long,
\* and a longer token stays longer than every name of a class.
Downcase(s, from, to) ==
    [i \in 1..Len(s) |-> IF i >= from /\ i < to THEN ToLower(s[i]) ELSE s[i]]

RECURSIVE SkipSpace(_, _)
SkipSpace(s, i) == IF scanner_isspace(At(s, i)) THEN SkipSpace(s, i + 1) ELSE i

\* The scan of an unquoted name: up to the separator, a space or the end.
RECURSIVE ScanUnquoted(_, _, _)
ScanUnquoted(s, i, separator) ==
    IF At(s, i) # NUL /\ At(s, i) # separator /\ ~scanner_isspace(At(s, i))
    THEN ScanUnquoted(s, i + 1, separator)
    ELSE i

\* The scan of a quoted name from the opening quote at nextp: the closing
\* quote is the first one not doubled, each doubled quote collapsing to one.
RECURSIVE ScanQuoted(_, _)
ScanQuoted(s, nextp) ==
    LET endp == StrChr(s, nextp + 1, "\"") IN
    IF endp = 0 THEN [ok |-> FALSE, s |-> s, endp |-> 0]
    ELSE IF At(s, endp + 1) # "\"" THEN [ok |-> TRUE, s |-> s, endp |-> endp]
    ELSE ScanQuoted(RemoveAt(s, endp), endp)

RECURSIVE SplitLoop(_, _, _, _)
RECURSIVE SplitRest(_, _, _, _, _, _)

\* The body of the do-while at the start of a name.
SplitLoop(s, nextp, separator, namelist) ==
    IF At(s, nextp) = "\""
    THEN LET q == ScanQuoted(s, nextp) IN
         IF ~q.ok THEN [ok |-> FALSE, list |-> namelist]
         ELSE SplitRest(q.s, nextp + 1, q.endp, q.endp + 1, separator, namelist)
    ELSE LET endp == ScanUnquoted(s, nextp, separator) IN
         IF endp = nextp THEN [ok |-> FALSE, list |-> namelist]
         ELSE SplitRest(Downcase(s, nextp, endp), nextp, endp, endp,
                        separator, namelist)

\* After a name s[curname .. endp-1]: trailing space, then the separator
\* (another name must follow), the end of the string, or a syntax error.
SplitRest(s, curname, endp, after, separator, namelist) ==
    LET nextp == SkipSpace(s, after)
        name  == SubSeq(s, curname, endp - 1)
    IN  IF At(s, nextp) = separator
        THEN SplitLoop(s, SkipSpace(s, nextp + 1), separator, Append(namelist, name))
        ELSE IF At(s, nextp) = NUL
        THEN [ok |-> TRUE, list |-> Append(namelist, name)]
        ELSE [ok |-> FALSE, list |-> namelist]

\* SplitIdentifierString(rawstring, separator, &namelist): ok is the value
\* returned, list is *namelist.
SplitIdentifierString(rawstring, separator) ==
    LET nextp == SkipSpace(rawstring, 1) IN
    IF At(rawstring, nextp) = NUL
    THEN [ok |-> TRUE, list |-> <<>>]
    ELSE SplitLoop(rawstring, nextp, separator, <<>>)

(* ------------------------------------------------- the if-chain on token *)

\* A slip: MISC without the bit of MISC_SET.
TokenClassMiscAlone(token) ==
    IF pg_strcasecmp(token, CLASS_NONE) = 0
    THEN [known |-> TRUE, class |-> LOG_NONE]
    ELSE IF pg_strcasecmp(token, CLASS_ALL) = 0
    THEN [known |-> TRUE, class |-> LOG_ALL]
    ELSE IF pg_strcasecmp(token, CLASS_DDL) = 0
    THEN [known |-> TRUE, class |-> LOG_DDL]
    ELSE IF pg_strcasecmp(token, CLASS_FUNCTION) = 0
    THEN [known |-> TRUE, class |-> LOG_FUNCTION]
    ELSE IF pg_strcasecmp(token, CLASS_MISC) = 0
    THEN [known |-> TRUE, class |-> LOG_MISC]
    ELSE IF pg_strcasecmp(token, CLASS_MISC_SET) = 0
    THEN [known |-> TRUE, class |-> LOG_MISC_SET]
    ELSE IF pg_strcasecmp(token, CLASS_READ) = 0
    THEN [known |-> TRUE, class |-> LOG_READ]
    ELSE IF pg_strcasecmp(token, CLASS_ROLE) = 0
    THEN [known |-> TRUE, class |-> LOG_ROLE]
    ELSE IF pg_strcasecmp(token, CLASS_WRITE) = 0
    THEN [known |-> TRUE, class |-> LOG_WRITE]
    ELSE [known |-> FALSE, class |-> LOG_NONE]

\* The class of a token already past its '-': known is FALSE on the final
\* else of the chain.
TokenClass(token) ==
    IF pg_strcasecmp(token, CLASS_NONE) = 0
    THEN [known |-> TRUE, class |-> LOG_NONE]
    ELSE IF pg_strcasecmp(token, CLASS_ALL) = 0
    THEN [known |-> TRUE, class |-> LOG_ALL]
    ELSE IF pg_strcasecmp(token, CLASS_DDL) = 0
    THEN [known |-> TRUE, class |-> LOG_DDL]
    ELSE IF pg_strcasecmp(token, CLASS_FUNCTION) = 0
    THEN [known |-> TRUE, class |-> LOG_FUNCTION]
    ELSE IF pg_strcasecmp(token, CLASS_MISC) = 0
    THEN [known |-> TRUE, class |-> BitOr(LOG_MISC, LOG_MISC_SET)]
    ELSE IF pg_strcasecmp(token, CLASS_MISC_SET) = 0
    THEN [known |-> TRUE, class |-> LOG_MISC_SET]
    ELSE IF pg_strcasecmp(token, CLASS_READ) = 0
    THEN [known |-> TRUE, class |-> LOG_READ]
    ELSE IF pg_strcasecmp(token, CLASS_ROLE) = 0
    THEN [known |-> TRUE, class |-> LOG_ROLE]
    ELSE IF pg_strcasecmp(token, CLASS_WRITE) = 0
    THEN [known |-> TRUE, class |-> LOG_WRITE]
    ELSE [known |-> FALSE, class |-> LOG_NONE]

\* if (token[0] == '-') { token++; subtract = true; }
Subtractive(token) == At(token, 1) = "-"

\* A slip: while (token[0] == '-') token++;
RECURSIVE StripMinusAll(_)
StripMinusAll(token) ==
    IF Subtractive(token) THEN StripMinusAll(Tail(token)) ELSE token

StripMinus(token) == IF Subtractive(token) THEN Tail(token) ELSE token

\* A slip: *flags &= class, the ~ forgotten.
FoldClassNoNot(acc, subtract, class) ==
    IF subtract THEN BitAnd(acc, class) ELSE BitOr(acc, class)

\* Add or subtract class bits from the log bitmap.
FoldClass(acc, subtract, class) ==
    IF subtract THEN BitAnd(acc, BitNot(class)) ELSE BitOr(acc, class)

\* check_pgaudit_log as a function of its input and of what malloc answers:
\* the foreach loop from token i on, with *flags = acc.
RECURSIVE FoldFrom(_, _, _)
FoldFrom(list, i, acc) ==
    IF i > Len(list) THEN [ok |-> TRUE, flags |-> acc]
    ELSE LET token == list[i]
             c     == TokenClass(StripMinus(token))
         IN  IF ~c.known THEN [ok |-> FALSE, flags |-> acc]
             ELSE FoldFrom(list, i + 1, FoldClass(acc, Subtractive(token), c.class))

SyntaxDetail == <<"List syntax is invalid">>
NoDetail     == <<>>

\* ret is the value returned, has tells whether *extra was written, flags is
\* the int *extra then points to, detail is what GUC_check_errdetail was given.
CheckAlone(raw, mallocOk) ==
    LET sp == SplitIdentifierString(raw, ",") IN
    IF ~sp.ok
    THEN [ret |-> FALSE, has |-> FALSE, flags |-> LOG_NONE, detail |-> SyntaxDetail]
    ELSE IF ~mallocOk
    THEN [ret |-> FALSE, has |-> FALSE, flags |-> LOG_NONE, detail |-> NoDetail]
    ELSE LET f == FoldFrom(sp.list, 1, LOG_NONE) IN
         IF f.ok
         THEN [ret |-> TRUE, has |-> TRUE, flags |-> f.flags, detail |-> NoDetail]
         ELSE [ret |-> FALSE, has |-> FALSE, flags |-> LOG_NONE, detail |-> NoDetail]

(* ----------------------------------------------------------- the inputs *)

\* How many tokens a generated list holds at most.
MaxTokens == 3

\* How many configuration changes the host has in flight at most, each with
\* its own call of the check hook and its own extra slot.
NumProcs == 2

\* How many ints the heap holds at most.
NumAddrs == 2

Procs == 1..NumProcs
Addrs == 1..NumAddrs
NULL  == 0

Comma == <<",">>
Minus == <<"-">>
Space == <<" ">>
Quote == <<"\"">>
Bogus == <<"b","o","g","u","s">>

ClassNames == {CLASS_DDL, CLASS_FUNCTION, CLASS_MISC, CLASS_MISC_SET,
               CLASS_READ, CLASS_ROLE, CLASS_WRITE, CLASS_NONE, CLASS_ALL}

\* Every spelling of a name in upper and lower case letters.
CaseVariants(name) ==
    { [i \in 1..Len(name) |-> IF i \in U THEN ToLower(name[i]) ELSE ToUpper(name[i])]
        : U \in SUBSET (1..Len(name)) }

CaseInputs == UNION { CaseVariants(n) : n \in ClassNames }

\* The tokens the generated lists are made of: names taken as they are and
\* with the '-', and tokens the if-chain does not know.
ListNames == {CLASS_READ, CLASS_WRITE, CLASS_ALL, CLASS_NONE}

TokenAtoms ==
    ListNames \cup { Minus \o n : n \in ListNames }
      \cup { Minus, Minus \o Minus \o CLASS_DDL, Bogus, Quote \o CLASS_DDL \o Quote }

RECURSIVE Join(_)
Join(list) ==
    IF Len(list) = 0 THEN <<>>
    ELSE IF Len(list) = 1 THEN list[1]
    ELSE list[1] \o Comma \o Join(Tail(list))

ListInputs ==
    { Join(l) : l \in UNION { [1..n -> TokenAtoms] : n \in 0..MaxTokens } }

\* Strings that exercise the list syntax itself.
SyntaxInputs ==
    { <<>>, Space, Space \o <<"\t">>, Comma,
      CLASS_DDL \o Comma, Comma \o CLASS_DDL,
      CLASS_DDL \o Comma \o Comma \o CLASS_READ,
      Quote \o CLASS_DDL, Quote \o Quote,
      CLASS_DDL \o Space \o CLASS_READ,
      Space \o CLASS_DDL \o Space \o Comma \o Space \o Minus \o CLASS_READ \o Space,
      Quote \o Minus \o CLASS_DDL \o Quote,
      Quote \o <<"a">> \o Quote \o Quote \o <<"b">> \o Quote,
      CLASS_DDL \o Comma \o CLASS_NONE,
      CLASS_NONE \o Comma \o CLASS_DDL,
      CLASS_FUNCTION \o Comma \o CLASS_ROLE \o Comma \o Minus \o CLASS_MISC_SET }

RawInputs == CaseInputs \cup ListInputs \cup SyntaxInputs

AllMinusWrite  == CLASS_ALL \o Comma \o Minus \o CLASS_WRITE
ReadWriteMinus == CLASS_READ \o Comma \o CLASS_WRITE \o Comma \o Minus \o CLASS_READ
DdlBogus       == CLASS_DDL \o Comma \o Bogus

\* What the host is given in the specifications that follow several changes.
HostInputs == { AllMinusWrite, ReadWriteMinus, DdlBogus, Comma }

(* ------------------------------------------------------------ the state *)

VARIABLES
    auditLogBitmap,   \* static int auditLogBitmap
    auditLogCatalog,  \* bool auditLogCatalog
    heap,             \* the ints malloc hands out: [live, val] per address
    pc,               \* where each configuration change of the host stands
    newVal,           \* *newVal of its call of check_pgaudit_log
    flagRawList,      \* the list SplitIdentifierString filled
    lt,               \* the position of the foreach loop in that list
    flags,            \* int *flags
    extra,            \* the host's slot that void **extra points to
    ret,              \* what check_pgaudit_log returned
    errdetail,        \* what GUC_check_errdetail was last given
    argExtra,         \* void *extra of the running assign_pgaudit_log
    loaded,           \* the value it read from *(int *) extra
    seen,             \* the values readers saw since the last assign began
    commitPre,        \* auditLogBitmap when the last assign began
    commitPost,       \* the value that assign was asked to store
    validated,        \* every bitmap a successful check has handed out
    cause,            \* why a check failed: syntax, alloc, unknown, or none
    badToken          \* the token the if-chain did not know

callVars   == <<pc, newVal, flagRawList, lt, flags, extra, ret, errdetail,
                cause, badToken>>
assignVars == <<argExtra, loaded, commitPre, commitPost>>
liveVars   == <<auditLogBitmap, auditLogCatalog>>
vars       == <<auditLogBitmap, auditLogCatalog, heap, pc, newVal, flagRawList,
                lt, flags, extra, ret, errdetail, argExtra, loaded, seen,
                commitPre, commitPost, validated, cause, badToken>>

FreeInt == [live |-> FALSE, val |-> LOG_NONE]

\* The module as loaded: the initialisers of the statics, nothing allocated,
\* no change under way.
InitWith(bitmap, catalog) ==
    /\ auditLogBitmap = bitmap
    /\ auditLogCatalog = catalog
    /\ heap = [a \in Addrs |-> FreeInt]
    /\ pc = [p \in Procs |-> "idle"]
    /\ newVal = [p \in Procs |-> <<>>]
    /\ flagRawList = [p \in Procs |-> <<>>]
    /\ lt = [p \in Procs |-> 1]
    /\ flags = [p \in Procs |-> NULL]
    /\ extra = [p \in Procs |-> NULL]
    /\ ret = [p \in Procs |-> FALSE]
    /\ errdetail = [p \in Procs |-> NoDetail]
    /\ argExtra = NULL
    /\ loaded = LOG_NONE
    /\ seen = {}
    /\ commitPre = bitmap
    /\ commitPost = bitmap
    /\ validated = {}
    /\ cause = [p \in Procs |-> "none"]
    /\ badToken = [p \in Procs |-> <<>>]

Init == InitWith(LOG_NONE, TRUE)

(* ---------------------------------------------------- check_pgaudit_log *)

\* The host calls the check hook of pgaudit.log on one of the strings of
\* inputs, its extra slot empty.
HostCall(p, inputs) ==
    /\ pc[p] = "idle"
    /\ \E raw \in inputs : newVal' = [newVal EXCEPT ![p] = raw]
    /\ pc' = [pc EXCEPT ![p] = "split"]
    /\ extra' = [extra EXCEPT ![p] = NULL]
    /\ errdetail' = [errdetail EXCEPT ![p] = NoDetail]
    /\ UNCHANGED <<liveVars, heap, flagRawList, lt, flags, ret, seen, assignVars,
                   validated, cause, badToken>>

\* A slip: a list of no token taken for a list syntax error.
CheckSplitNoEmpty(p) ==
    /\ pc[p] = "split"
    /\ LET sp == SplitIdentifierString(newVal[p], ",") IN
       IF ~sp.ok \/ sp.list = <<>>
       THEN /\ errdetail' = [errdetail EXCEPT ![p] = SyntaxDetail]
            /\ ret' = [ret EXCEPT ![p] = FALSE]
            /\ cause' = [cause EXCEPT ![p] = "syntax"]
            /\ pc' = [pc EXCEPT ![p] = "done"]
            /\ UNCHANGED flagRawList
       ELSE /\ flagRawList' = [flagRawList EXCEPT ![p] = sp.list]
            /\ pc' = [pc EXCEPT ![p] = "malloc"]
            /\ UNCHANGED <<errdetail, ret, cause>>
    /\ UNCHANGED <<liveVars, heap, newVal, lt, flags, extra, seen, assignVars,
                   validated, badToken>>

\* rawVal = pstrdup(*newVal); if (!SplitIdentifierString(...)) { ... }
CheckSplit(p) ==
    /\ pc[p] = "split"
    /\ LET sp == SplitIdentifierString(newVal[p], ",") IN
       IF ~sp.ok
       THEN /\ errdetail' = [errdetail EXCEPT ![p] = SyntaxDetail]
            /\ ret' = [ret EXCEPT ![p] = FALSE]
            /\ cause' = [cause EXCEPT ![p] = "syntax"]
            /\ pc' = [pc EXCEPT ![p] = "done"]
            /\ UNCHANGED flagRawList
       ELSE /\ flagRawList' = [flagRawList EXCEPT ![p] = sp.list]
            /\ pc' = [pc EXCEPT ![p] = "malloc"]
            /\ UNCHANGED <<errdetail, ret, cause>>
    /\ UNCHANGED <<liveVars, heap, newVal, lt, flags, extra, seen, assignVars,
                   validated, badToken>>

\* A slip: static int flags, one int for every call, in place of malloc.
MallocStatic(h) == {1}

\* What malloc(sizeof(int)) may answer: NULL, or an int not in use.
Malloc(h) == {NULL} \cup {a \in Addrs : ~h[a].live}

\* if (!(flags = (int *) malloc(sizeof(int)))) return false;  *flags = 0;
CheckMalloc(p) ==
    /\ pc[p] = "malloc"
    /\ \E a \in Malloc(heap) :
         IF a = NULL
         THEN /\ ret' = [ret EXCEPT ![p] = FALSE]
              /\ cause' = [cause EXCEPT ![p] = "alloc"]
              /\ pc' = [pc EXCEPT ![p] = "done"]
              /\ UNCHANGED <<heap, flags, lt>>
         ELSE /\ flags' = [flags EXCEPT ![p] = a]
              /\ heap' = [heap EXCEPT ![a] = [live |-> TRUE, val |-> LOG_NONE]]
              /\ lt' = [lt EXCEPT ![p] = 1]
              /\ pc' = [pc EXCEPT ![p] = "foreach"]
              /\ UNCHANGED <<ret, cause>>
    /\ UNCHANGED <<liveVars, newVal, flagRawList, extra, errdetail, seen,
                   assignVars, validated, badToken>>

\* A slip: the loop folds into auditLogBitmap as well as into *flags.
CheckTokenLive(p) ==
    /\ pc[p] = "foreach"
    /\ lt[p] <= Len(flagRawList[p])
    /\ LET token    == flagRawList[p][lt[p]]
           subtract == Subtractive(token)
           c        == TokenClass(StripMinus(token))
       IN  IF ~c.known
           THEN /\ heap' = [heap EXCEPT ![flags[p]] = FreeInt]
                /\ flags' = [flags EXCEPT ![p] = NULL]
                /\ ret' = [ret EXCEPT ![p] = FALSE]
                /\ cause' = [cause EXCEPT ![p] = "unknown"]
                /\ badToken' = [badToken EXCEPT ![p] = token]
                /\ pc' = [pc EXCEPT ![p] = "done"]
                /\ UNCHANGED <<lt, auditLogBitmap>>
           ELSE /\ heap' = [heap EXCEPT ![flags[p]].val =
                               FoldClass(@, subtract, c.class)]
                /\ auditLogBitmap' =
                       FoldClass(heap[flags[p]].val, subtract, c.class)
                /\ lt' = [lt EXCEPT ![p] = @ + 1]
                /\ UNCHANGED <<flags, ret, cause, badToken, pc>>
    /\ UNCHANGED <<auditLogCatalog, newVal, flagRawList, extra, errdetail, seen,
                   assignVars, validated>>

\* One turn of the foreach loop: the token is known and folded into *flags,
\* or it is not and the call gives up, freeing flags.
CheckToken(p) ==
    /\ pc[p] = "foreach"
    /\ lt[p] <= Len(flagRawList[p])
    /\ LET token    == flagRawList[p][lt[p]]
           subtract == Subtractive(token)
           c        == TokenClass(StripMinus(token))
       IN  IF ~c.known
           THEN /\ heap' = [heap EXCEPT ![flags[p]] = FreeInt]
                /\ flags' = [flags EXCEPT ![p] = NULL]
                /\ ret' = [ret EXCEPT ![p] = FALSE]
                /\ cause' = [cause EXCEPT ![p] = "unknown"]
                /\ badToken' = [badToken EXCEPT ![p] = token]
                /\ pc' = [pc EXCEPT ![p] = "done"]
                /\ UNCHANGED lt
           ELSE /\ heap' = [heap EXCEPT ![flags[p]].val =
                               FoldClass(@, subtract, c.class)]
                /\ lt' = [lt EXCEPT ![p] = @ + 1]
                /\ UNCHANGED <<flags, ret, cause, badToken, pc>>
    /\ UNCHANGED <<liveVars, newVal, flagRawList, extra, errdetail, seen,
                   assignVars, validated>>

\* A slip: the check hook stores the bitmap itself, auditLogBitmap = *flags.
CheckReturnStores(p) ==
    /\ pc[p] = "foreach"
    /\ lt[p] > Len(flagRawList[p])
    /\ extra' = [extra EXCEPT ![p] = flags[p]]
    /\ flags' = [flags EXCEPT ![p] = NULL]
    /\ ret' = [ret EXCEPT ![p] = TRUE]
    /\ pc' = [pc EXCEPT ![p] = "done"]
    /\ validated' = validated \cup {heap[flags[p]].val}
    /\ auditLogBitmap' = heap[flags[p]].val
    /\ UNCHANGED <<auditLogCatalog, heap, newVal, flagRawList, lt, errdetail,
                   seen, assignVars, cause, badToken>>

\* The list is done: *extra = flags; return true;
CheckReturn(p) ==
    /\ pc[p] = "foreach"
    /\ lt[p] > Len(flagRawList[p])
    /\ extra' = [extra EXCEPT ![p] = flags[p]]
    /\ flags' = [flags EXCEPT ![p] = NULL]
    /\ ret' = [ret EXCEPT ![p] = TRUE]
    /\ pc' = [pc EXCEPT ![p] = "done"]
    /\ validated' = validated \cup {heap[flags[p]].val}
    /\ UNCHANGED <<liveVars, heap, newVal, flagRawList, lt, errdetail, seen,
                   assignVars, cause, badToken>>

(* --------------------------------------------------- assign_pgaudit_log *)

\* The host calls the assign hook with the extra of a check that returned
\* true, or with no extra. One assign runs at a time.
HostAssign(p) ==
    /\ pc[p] \in {"done", "assigned"}
    /\ \A q \in Procs : pc[q] \notin {"assign", "store", "return"}
    /\ \E e \in {NULL} \cup (IF ret[p] THEN {extra[p]} ELSE {}) :
         /\ argExtra' = e
         /\ commitPost' = IF e = NULL THEN auditLogBitmap ELSE heap[e].val
    /\ commitPre' = auditLogBitmap
    /\ seen' = {}
    /\ pc' = [pc EXCEPT ![p] = "assign"]
    /\ UNCHANGED <<liveVars, heap, newVal, flagRawList, lt, flags, extra, ret,
                   errdetail, loaded, validated, cause, badToken>>

\* A slip: auditLogBitmap = 0 before the bits are read and stored.
AssignLoadClears(p) ==
    /\ pc[p] = "assign"
    /\ IF argExtra = NULL
       THEN /\ pc' = [pc EXCEPT ![p] = "return"]
            /\ UNCHANGED <<loaded, auditLogBitmap>>
       ELSE /\ loaded' = heap[argExtra].val
            /\ auditLogBitmap' = LOG_NONE
            /\ pc' = [pc EXCEPT ![p] = "store"]
    /\ UNCHANGED <<auditLogCatalog, heap, newVal, flagRawList, lt, flags, extra,
                   ret, errdetail, argExtra, seen, commitPre, commitPost,
                   validated, cause, badToken>>

\* if (extra) ... *(int *) extra: the test, and the read of the int.
AssignLoad(p) ==
    /\ pc[p] = "assign"
    /\ IF argExtra = NULL
       THEN /\ pc' = [pc EXCEPT ![p] = "return"]
            /\ UNCHANGED loaded
       ELSE /\ loaded' = heap[argExtra].val
            /\ pc' = [pc EXCEPT ![p] = "store"]
    /\ UNCHANGED <<liveVars, heap, newVal, flagRawList, lt, flags, extra, ret,
                   errdetail, argExtra, seen, commitPre, commitPost, validated,
                   cause, badToken>>

\* A slip: auditLogBitmap |= *(int *) extra.
AssignStoreOr(p) ==
    /\ pc[p] = "store"
    /\ auditLogBitmap' = BitOr(auditLogBitmap, loaded)
    /\ pc' = [pc EXCEPT ![p] = "return"]
    /\ UNCHANGED <<auditLogCatalog, heap, newVal, flagRawList, lt, flags, extra,
                   ret, errdetail, argExtra, loaded, seen, commitPre, commitPost,
                   validated, cause, badToken>>

\* auditLogBitmap = ...: the store of the int.
AssignStore(p) ==
    /\ pc[p] = "store"
    /\ auditLogBitmap' = loaded
    /\ pc' = [pc EXCEPT ![p] = "return"]
    /\ UNCHANGED <<auditLogCatalog, heap, newVal, flagRawList, lt, flags, extra,
                   ret, errdetail, argExtra, loaded, seen, commitPre, commitPost,
                   validated, cause, badToken>>

\* assign_pgaudit_log returns; its frame and the record of what readers saw
\* while it ran are dropped.
AssignReturn(p) ==
    /\ pc[p] = "return"
    /\ pc' = [pc EXCEPT ![p] = "assigned"]
    /\ argExtra' = NULL
    /\ loaded' = LOG_NONE
    /\ commitPre' = auditLogBitmap
    /\ commitPost' = auditLogBitmap
    /\ seen' = {}
    /\ UNCHANGED <<liveVars, heap, newVal, flagRawList, lt, flags, extra, ret,
                   errdetail, validated, cause, badToken>>

(* ------------------------------------------------------------- the host *)

\* The host is done with a change: it frees the extra it holds, if any.
HostRelease(p) ==
    /\ pc[p] \in {"done", "assigned"}
    /\ heap' = IF extra[p] = NULL THEN heap ELSE [heap EXCEPT ![extra[p]] = FreeInt]
    /\ pc' = [pc EXCEPT ![p] = "idle"]
    /\ newVal' = [newVal EXCEPT ![p] = <<>>]
    /\ flagRawList' = [flagRawList EXCEPT ![p] = <<>>]
    /\ lt' = [lt EXCEPT ![p] = 1]
    /\ extra' = [extra EXCEPT ![p] = NULL]
    /\ ret' = [ret EXCEPT ![p] = FALSE]
    /\ errdetail' = [errdetail EXCEPT ![p] = NoDetail]
    /\ cause' = [cause EXCEPT ![p] = "none"]
    /\ badToken' = [badToken EXCEPT ![p] = <<>>]
    /\ UNCHANGED <<liveVars, flags, seen, assignVars, validated>>

Assigning == \E q \in Procs : pc[q] \in {"assign", "store", "return"}

\* The audit decision of a statement reads the bitmap, at any time; what it
\* saw is recorded while an assign runs.
ReadBitmap ==
    /\ seen' = IF Assigning THEN seen \cup {auditLogBitmap} ELSE seen
    /\ UNCHANGED <<liveVars, heap, callVars, assignVars, validated>>

Running(q) == pc[q] \in {"split", "malloc", "foreach", "assign", "store", "return"}

\* The host runs a hook to its end before it does anything else.
Alone(p) == \A q \in Procs \ {p} : ~Running(q)

Next ==
    \/ \E p \in Procs : Alone(p) /\ HostCall(p, HostInputs)
    \/ \E p \in Procs : Alone(p) /\ CheckSplit(p)
    \/ \E p \in Procs : Alone(p) /\ CheckMalloc(p)
    \/ \E p \in Procs : Alone(p) /\ CheckToken(p)
    \/ \E p \in Procs : Alone(p) /\ CheckReturn(p)
    \/ \E p \in Procs : Alone(p) /\ HostAssign(p)
    \/ \E p \in Procs : Alone(p) /\ AssignLoad(p)
    \/ \E p \in Procs : Alone(p) /\ AssignStore(p)
    \/ \E p \in Procs : Alone(p) /\ AssignReturn(p)
    \/ \E p \in Procs : Alone(p) /\ HostRelease(p)
    \/ ReadBitmap

Spec == Init /\ [][Next]_vars

\* One call of the check hook on each input, with the bitmap and the flag as
\* loaded, or as earlier changes may have left them: DDL and READ assigned,
\* and pgaudit.log_catalog, which has no hooks, set to off by the host.
InitCheck ==
    \/ InitWith(LOG_NONE, TRUE)
    \/ InitWith(BitOr(LOG_DDL, LOG_READ), FALSE)

NextCheck ==
    \/ HostCall(1, RawInputs)
    \/ CheckSplit(1)
    \/ CheckMalloc(1)
    \/ CheckToken(1)
    \/ CheckReturn(1)

SpecCheck == InitCheck /\ [][NextCheck]_vars

\* Calls of the check hook interleaved step by step.
NextConc ==
    \E p \in Procs :
        \/ HostCall(p, HostInputs)
        \/ CheckSplit(p)
        \/ CheckMalloc(p)
        \/ CheckToken(p)
        \/ CheckReturn(p)
        \/ HostRelease(p)

SpecConc == Init /\ [][NextConc]_vars

(* ------------------------------------------------------------ the claims *)

\* A call of check_pgaudit_log is under way for change p.
InCheck(p) == pc[p] \in {"split", "malloc", "foreach"}

\* The bitmap a finished, successful check handed to the host.
Candidate(p) == heap[extra[p]].val

\* C1: no step of check_pgaudit_log, whatever its input and however it ends
\* (success, list syntax, unknown class after tokens already folded, malloc
\* failure), changes auditLogBitmap or auditLogCatalog.
C1_CheckLeavesLive ==
    [][InCheck(1) => /\ auditLogBitmap' = auditLogBitmap
                     /\ auditLogCatalog' = auditLogCatalog]_vars

\* A check that gave up on its third token, two tokens folded, with DDL and
\* READ still the live bitmap and the flag still off.
C1_Witness ==
    /\ pc[1] = "done" /\ cause[1] = "unknown" /\ lt[1] = 3
    /\ auditLogBitmap = BitOr(LOG_DDL, LOG_READ)
    /\ auditLogCatalog = FALSE

\* C2: assign_pgaudit_log with an extra leaves auditLogBitmap equal to the int
\* the extra points to, with no extra it leaves auditLogBitmap as it was; it
\* never changes auditLogCatalog, and it cannot fail: the int it reads is a
\* live one.
C2_AssignStoresCandidate ==
    /\ [](\A p \in Procs :
            /\ pc[p] = "return" =>
                 auditLogBitmap = IF argExtra = NULL THEN commitPre
                                  ELSE heap[argExtra].val
            /\ (pc[p] \in {"assign", "store"} /\ argExtra # NULL) =>
                 heap[argExtra].live)
    /\ [][Assigning => auditLogCatalog' = auditLogCatalog]_vars

\* An assign with an extra that changed a bitmap other than 0.
C2_Witness ==
    \E p \in Procs :
        /\ pc[p] = "return" /\ argExtra # NULL
        /\ commitPre # LOG_NONE
        /\ auditLogBitmap # commitPre

\* C3: when the host assigns only what a successful check handed out (or
\* nothing), auditLogBitmap is 0, its initial value, or a bitmap some
\* successful check produced; a check that failed leaves no trace in it.
C3_LiveIsValidated ==
    auditLogBitmap = LOG_NONE \/ auditLogBitmap \in validated

\* A bitmap was assigned, and a later check failed on an unknown class after
\* it had folded a token.
C3_Witness ==
    /\ auditLogBitmap # LOG_NONE
    /\ \E p \in Procs : pc[p] = "done" /\ cause[p] = "unknown" /\ lt[p] = 2

\* The nine names of the claims and their bits, by the spelling in lower case.
Lowered(s) == [i \in 1..Len(s) |-> ToLower(s[i])]

NameBits(name) ==
    CASE name = Lowered(CLASS_DDL)      -> {0}
      [] name = Lowered(CLASS_FUNCTION) -> {1}
      [] name = Lowered(CLASS_MISC)     -> {2, 6}
      [] name = Lowered(CLASS_READ)     -> {3}
      [] name = Lowered(CLASS_ROLE)     -> {4}
      [] name = Lowered(CLASS_WRITE)    -> {5}
      [] name = Lowered(CLASS_MISC_SET) -> {6}
      [] name = Lowered(CLASS_NONE)     -> {}
      [] name = Lowered(CLASS_ALL)      -> 0..31

\* A token is recognized when, one leading '-' at most taken off, it is one of
\* the nine names in any letter case.
NameOf(token) ==
    Lowered(IF Len(token) > 0 /\ token[1] = "-" THEN Tail(token) ELSE token)

Recognized(token) == NameOf(token) \in { Lowered(n) : n \in ClassNames }

\* The fold of the claim, from the left and from 0.
RECURSIVE LeftFold(_)
LeftFold(list) ==
    IF Len(list) = 0 THEN {}
    ELSE LET acc   == LeftFold(SubSeq(list, 1, Len(list) - 1))
             token == list[Len(list)]
         IN  IF token[1] = "-" THEN acc \ NameBits(NameOf(token))
             ELSE acc \cup NameBits(NameOf(token))

\* The call for change p is over and malloc did not fail in it.
Finished(p) == pc[p] = "done" /\ cause[p] # "alloc"

GivesBits(raw, bits) ==
    (Finished(1) /\ newVal[1] = raw) =>
        ret[1] /\ extra[1] # NULL /\ Candidate(1) = bits

\* C4: a list of recognized tokens gives the left-to-right fold from 0, a
\* token adding its bits and a token with '-' clearing them; so the order
\* counts and NONE and ALL are folded like the other names.
C4_LeftToRightFold ==
    /\ (Finished(1) /\ cause[1] # "syntax"
          /\ \A i \in 1..Len(flagRawList[1]) : Recognized(flagRawList[1][i]))
        => /\ ret[1]
           /\ extra[1] # NULL
           /\ Candidate(1) = LeftFold(flagRawList[1])
    /\ GivesBits(ReadWriteMinus, {5})
    /\ GivesBits(AllMinusWrite, (0..31) \ {5})
    /\ GivesBits(CLASS_DDL \o Comma \o CLASS_NONE, {0})
    /\ GivesBits(Minus \o CLASS_NONE, {})
    /\ GivesBits(Minus \o CLASS_ALL, {})
    /\ GivesBits(CLASS_WRITE \o Comma \o Minus \o CLASS_ALL \o Comma \o CLASS_READ, {3})

\* "READ,WRITE,-READ" checked: only the bit of WRITE is left.
C4_Witness ==
    /\ pc[1] = "done" /\ ret[1] /\ newVal[1] = ReadWriteMinus
    /\ Candidate(1) = LOG_WRITE

\* raw spells name, each letter in either case.
Spells(raw, name) ==
    /\ Len(raw) = Len(name)
    /\ \A i \in 1..Len(name) : raw[i] \in {ToLower(name[i]), ToUpper(name[i])}

OneBitNames == {CLASS_DDL, CLASS_FUNCTION, CLASS_MISC_SET, CLASS_READ,
                CLASS_ROLE, CLASS_WRITE}

\* C5: a single token that spells one of the nine names, in any letter case,
\* gives that name's bits: one bit, and a different one, for each of DDL,
\* FUNCTION, MISC_SET, READ, ROLE and WRITE, the bits of MISC and MISC_SET for
\* MISC, every bit for ALL and none for NONE.
C5_SingleName ==
    \A n \in ClassNames :
        (Finished(1) /\ Spells(newVal[1], n)) =>
            /\ ret[1]
            /\ extra[1] # NULL
            /\ Candidate(1) = NameBits(Lowered(n))
            /\ n \in OneBitNames =>
                 /\ Cardinality(Candidate(1)) = 1
                 /\ \A m \in OneBitNames \ {n} :
                        Candidate(1) # NameBits(Lowered(m))
            /\ n = CLASS_MISC =>
                 Candidate(1) = NameBits(Lowered(CLASS_MISC_SET)) \cup LOG_MISC
            /\ n = CLASS_ALL => Candidate(1) = IntBits
            /\ n = CLASS_NONE => Candidate(1) = {}

\* "mIsC" checked: the bit of MISC and the bit of MISC_SET.
C5_Witness ==
    /\ pc[1] = "done" /\ ret[1]
    /\ newVal[1] = <<"m","I","s","C">>
    /\ Candidate(1) = {2, 6}

\* C6: a list with a token that is not recognized once one leading '-' is taken
\* off ("-" and "--DDL" among them) fails as a whole, wherever the token
\* stands and whatever stands before it: false is returned and the extra slot
\* is not written.
C6_UnknownTokenFails ==
    (pc[1] = "done" /\ cause[1] # "syntax"
       /\ \E i \in 1..Len(flagRawList[1]) : ~Recognized(flagRawList[1][i]))
    => /\ ~ret[1]
       /\ extra[1] = NULL

\* "--DDL" in the third place, after two tokens that were folded.
C6_Witness ==
    /\ pc[1] = "done" /\ cause[1] = "unknown" /\ lt[1] = 3
    /\ badToken[1] = Minus \o Minus \o Lowered(CLASS_DDL)
    /\ ~ret[1] /\ extra[1] = NULL

\* C7: whatever a reader sees of auditLogBitmap while assign_pgaudit_log runs
\* is the whole value from before the assign or the whole value it was asked
\* to store: the assign changes the bitmap in one store.
C7_ReadersSeePreOrPost == seen \subseteq {commitPre, commitPost}

\* Readers saw the old and the new bitmap in the course of one assign, both
\* other than 0.
C7_Witness ==
    /\ seen = {commitPre, commitPost}
    /\ commitPre # commitPost
    /\ commitPre # LOG_NONE /\ commitPost # LOG_NONE

\* C8: a check that runs interleaved with others, token step by token step,
\* ends as it ends alone on its input: same return value, same bitmap handed
\* out, same detail.
C8_ChecksDoNotInterfere ==
    \A p \in Procs :
        pc[p] = "done" =>
            LET alone == CheckAlone(newVal[p], cause[p] # "alloc") IN
            /\ ret[p] = alone.ret
            /\ (extra[p] # NULL) = alone.has
            /\ alone.has => Candidate(p) = alone.flags
            /\ errdetail[p] = alone.detail

\* One check is over with the bitmap of "READ,WRITE,-READ" while the check of
\* "ALL,-WRITE" stands between its two tokens.
C8_Witness ==
    /\ pc[1] = "done" /\ ret[1] /\ newVal[1] = ReadWriteMinus
    /\ Candidate(1) = LOG_WRITE
    /\ pc[2] = "foreach" /\ lt[2] = 2 /\ newVal[2] = AllMinusWrite

\* raw is empty or holds nothing but white space.
AllSpace(raw) == \A i \in 1..Len(raw) : scanner_isspace(raw[i])

\* C9 as stated: an empty or all-white-space string, and a string whose split
\* yields no token, fails with "List syntax is invalid" and hands out nothing.
C9_EmptyIsSyntaxError ==
    (Finished(1) /\ AllSpace(newVal[1]))
    => /\ ~ret[1]
       /\ errdetail[1] = SyntaxDetail
       /\ extra[1] = NULL

\* C9 as amended: an empty or all-white-space string splits into no token and,
\* unless malloc fails, succeeds with the bitmap 0 and no detail; "List syntax
\* is invalid", with false returned and nothing handed out, is the outcome
\* of exactly the strings SplitIdentifierString rejects.
C9_EmptyGivesNone ==
    /\ (Finished(1) /\ AllSpace(newVal[1]))
        => /\ ret[1]
           /\ flagRawList[1] = <<>>
           /\ extra[1] # NULL
           /\ Candidate(1) = LOG_NONE
           /\ errdetail[1] = NoDetail
    /\ (pc[1] = "done" /\ cause[1] = "alloc" /\ AllSpace(newVal[1]))
        => ~ret[1] /\ extra[1] = NULL /\ errdetail[1] = NoDetail
    /\ pc[1] = "done" =>
         /\ (errdetail[1] = SyntaxDetail) = (cause[1] = "syntax")
         /\ (cause[1] = "syntax") = ~SplitIdentifierString(newVal[1], ",").ok
         /\ cause[1] = "syntax" => ~ret[1] /\ extra[1] = NULL

\* " \t" checked: true, and the bitmap 0.
C9_Witness ==
    /\ pc[1] = "done" /\ newVal[1] = <<" ", "\t">>
    /\ ret[1] /\ extra[1] # NULL /\ Candidate(1) = LOG_NONE

Range(s) == { s[i] : i \in 1..Len(s) }

\* C10: a check that fails tells its cause. The three kinds are told apart by
\* what is reported: a list syntax error by its fixed detail, an unknown class
\* by a detail that holds the token, a failed allocation by neither.
C10_FailureTellsCause ==
    (pc[1] = "done" /\ ~ret[1])
    => /\ cause[1] = "syntax" => errdetail[1] = SyntaxDetail
       /\ cause[1] = "unknown" => badToken[1] \in Range(errdetail[1])
       /\ cause[1] = "alloc" =>
            /\ errdetail[1] # SyntaxDetail
            /\ \A i \in 1..Len(flagRawList[1]) :
                   flagRawList[1][i] \notin Range(errdetail[1])

====
